---- MODULE Spec2Model ----
(***************************************************************************)
(* Model of nommo_vol_driver (src/src/main.rs): the report decoder, the    *)
(* NommoVol level with inc/dec, the pactl text round trip and the device   *)
(* loop handle_device, run against a PulseAudio sink that other programs   *)
(* may change at any time.                                                 *)
(*                                                                         *)
(* Strings are sequences of Unicode code points.  A subprocess call is     *)
(* two steps: the spawn, and the join/capture the loop blocks on.          *)
(***************************************************************************)
EXTENDS Integers, Sequences, FiniteSets, TLC

VARIABLES
    pc,               \* position of handle_device in its loop body
    buff,             \* the 16-byte report buffer
    msg,              \* the decoded NommoMsg of this iteration
    current_vol,      \* the level get_sink_volume returned in this iteration
    vol,              \* the argument of set_sink_volume in this iteration
    calls,            \* the pactl calls of this iteration, in spawn order
    panic,            \* the panic message that ended the loop, or "none"
    overflow_checks,  \* the build: TRUE panics on u8 overflow, FALSE wraps
    sinkVol,          \* the sink's volume percentage, as pactl reports it
    sinkMute          \* the sink's mute flag

vars == <<pc, buff, msg, current_vol, vol, calls, panic, overflow_checks,
          sinkVol, sinkMute>>

(***************************************************************************)
(* Constants of the program and bounds of the model.                       *)
(***************************************************************************)
VOL_STEP == 5

BUFF_LEN == 16

U8_MAX == 255

\* The largest percentage another program sets the sink to.
MaxSinkPct == 300

\* The percentages other programs set the sink to.
ExternalVols == {0, 3, 97, 150, 251, MaxSinkPct}

\* The percentages of the other sinks pactl lists: one of each class of
\* level (Muted at 0 and above 255, levels dec mutes, a level in the
\* middle, the ceiling, levels above it, levels inc overflows on).
OtherSinkVols == {0, 3, 33, 100, 150, 251, MaxSinkPct}

(***************************************************************************)
(* NommoMsg and the report decoder.                                        *)
(***************************************************************************)
VolUp == [tag |-> "VolUp", v |-> 0]

VolDown == [tag |-> "VolDown", v |-> 0]

EqValue(v) == [tag |-> "EqValue", v |-> v]

Noop == [tag |-> "Noop", v |-> 0]

\* The value of msg before a report has been decoded in this iteration.
NoMsg == [tag |-> "none", v |-> 0]

\* Mutant of NommoMsg_try_from: EqValue takes the third byte.
NommoMsg_try_from_third_byte(other) ==
    IF other[1] = 1 /\ other[2] = 233 THEN [ok |-> TRUE, msg |-> VolUp]
    ELSE IF other[1] = 1 /\ other[2] = 234 THEN [ok |-> TRUE, msg |-> VolDown]
    ELSE IF other[1] = 5 /\ other[2] = 15
        THEN [ok |-> TRUE, msg |-> EqValue(other[3])]
    ELSE IF other[1] = 1 /\ other[2] = 0 THEN [ok |-> TRUE, msg |-> Noop]
    ELSE [ok |-> FALSE, msg |-> NoMsg]

\* impl TryFrom<&[u8; 16]> for NommoMsg: first matching arm wins.
NommoMsg_try_from(other) ==
    IF other[1] = 1 /\ other[2] = 233 THEN [ok |-> TRUE, msg |-> VolUp]
    ELSE IF other[1] = 1 /\ other[2] = 234 THEN [ok |-> TRUE, msg |-> VolDown]
    ELSE IF other[1] = 5 /\ other[2] = 15
        THEN [ok |-> TRUE, msg |-> EqValue(other[4])]
    ELSE IF other[1] = 1 /\ other[2] = 0 THEN [ok |-> TRUE, msg |-> Noop]
    ELSE [ok |-> FALSE, msg |-> NoMsg]

Report(b0, b1, b2, b3, rest) ==
    <<b0, b1, b2, b3>> \o [i \in 1..(BUFF_LEN - 4) |-> rest]

\* The reports the device sends in the model.
Reports ==
    { Report(1, 233, 0, 0, 0), Report(1, 233, 7, 9, 255),
      Report(1, 234, 0, 0, 0), Report(1, 234, 9, 42, 9),
      Report(5, 15, 0, 42, 0), Report(5, 15, 3, 0, 9),
      Report(1, 0, 0, 0, 0),   Report(1, 0, 9, 9, 9),
      Report(9, 9, 9, 9, 9),   Report(0, 0, 0, 0, 0),
      Report(5, 233, 0, 0, 0), Report(1, 235, 0, 0, 0) }

(***************************************************************************)
(* NommoVol and its transitions.                                           *)
(***************************************************************************)
Muted == [tag |-> "Muted", val |-> 0]

Value(v) == [tag |-> "Value", val |-> v]

\* The value of current_vol and vol before they are bound in an iteration.
NoVol == [tag |-> "none", val |-> 0]

\* The outcome of a u8 addition that overflowed under overflow checks.
AddOverflow == [tag |-> "panic", val |-> 0]

\* u8 + u8: a panic under overflow checks (-1 here), a wrap without them.
u8_add(a, b, checks) ==
    IF a + b > U8_MAX
    THEN (IF checks THEN -1 ELSE (a + b) % (U8_MAX + 1))
    ELSE a + b

\* Mutant of inc: the sum is not clamped at 100.
inc_unclamped(self, step, checks) ==
    IF self.tag = "Muted" THEN Value(step)
    ELSE LET sum == u8_add(self.val, step, checks) IN
         IF sum < 0 THEN AddOverflow ELSE Value(sum)

\* Mutant of inc: a muted level stays muted.
inc_muted_stays(self, step, checks) ==
    IF self.tag = "Muted" THEN Muted
    ELSE LET sum == u8_add(self.val, step, checks) IN
         IF sum < 0 THEN AddOverflow
         ELSE IF sum > 100 THEN Value(100)
         ELSE Value(sum)

\* NommoVol::inc
inc(self, step, checks) ==
    IF self.tag = "Muted" THEN Value(step)
    ELSE LET sum == u8_add(self.val, step, checks) IN
         IF sum < 0 THEN AddOverflow
         ELSE IF sum > 100 THEN Value(100)
         ELSE Value(sum)

\* Mutant of dec: the floor test is val < step.
dec_strict(self, step) ==
    IF self.tag = "Muted" THEN Muted
    ELSE IF self.val < step THEN Muted
    ELSE Value(self.val - step)

\* NommoVol::dec
dec(self, step) ==
    IF self.tag = "Muted" THEN Muted
    ELSE IF self.val <= step THEN Muted
    ELSE Value(self.val - step)

(***************************************************************************)
(* Text.  A string is the sequence of the Unicode code points of its       *)
(* characters; its bytes are those of its UTF-8 encoding.                  *)
(***************************************************************************)
NEWLINE == 10

SPACE == 32

PERCENT == 37

PLUS == 43

ZERO == 48

\* char::is_whitespace: the code points with the White_Space property.
White_Space ==
    (9..13) \cup {SPACE, 133, 160, 5760} \cup (8192..8202)
        \cup {8232, 8233, 8239, 8287, 12288}

IsSpace(c) == c \in White_Space

IsDigit(c) == c \in ZERO..(ZERO + 9)

DigitValue(c) == c - ZERO

\* The number of bytes of the UTF-8 encoding of the character c.
len_utf8(c) ==
    IF c < 128 THEN 1
    ELSE IF c < 2048 THEN 2
    ELSE IF c < 65536 THEN 3
    ELSE 4

RECURSIVE to_string(_)
\* The decimal digits of a natural number ("{}" of an unsigned integer).
to_string(n) ==
    IF n < 10 THEN <<ZERO + n>>
    ELSE to_string(n \div 10) \o <<ZERO + (n % 10)>>

RECURSIVE parse_digits(_, _, _)
\* The digits of s from position i on, accumulated into acc; -1 on a
\* character that is no digit or on a value above max.
parse_digits(s, i, acc) ==
    IF i > Len(s) THEN acc
    ELSE IF ~IsDigit(s[i]) THEN -1
    ELSE LET next == acc * 10 + DigitValue(s[i]) IN
         IF next > U8_MAX THEN -1 ELSE parse_digits(s, i + 1, next)

\* str::parse::<u8>: an optional "+", then at least one digit, at most 255.
parse_u8(s) ==
    LET digits == IF Len(s) > 0 /\ s[1] = PLUS THEN Tail(s) ELSE s
        n == IF Len(digits) = 0 THEN -1 ELSE parse_digits(digits, 1, 0)
    IN  [ok |-> n >= 0, val |-> IF n >= 0 THEN n ELSE 0]

\* impl TryFrom<String> for NommoVol.  The slice other[..other.len() - 1]
\* ends one BYTE before the end of the text: it panics in every build on
\* the empty text (the length underflows or the index is out of bounds)
\* and on a text whose last character takes more than one byte (the index
\* is not a char boundary); otherwise it drops the last character.
NommoVol_try_from(other) ==
    IF Len(other) = 0 \/ len_utf8(other[Len(other)]) > 1
    THEN [panic |-> TRUE, ok |-> FALSE, vol |-> NoVol]
    ELSE LET number_string == SubSeq(other, 1, Len(other) - 1)
             number_value == parse_u8(number_string)
         IN  IF ~number_value.ok
             THEN [panic |-> FALSE, ok |-> FALSE, vol |-> NoVol]
             ELSE IF number_value.val = 0
             THEN [panic |-> FALSE, ok |-> TRUE, vol |-> Muted]
             ELSE [panic |-> FALSE, ok |-> TRUE,
                   vol |-> Value(number_value.val)]

\* impl Display for NommoVol
fmt(self) ==
    IF self.tag = "Value" THEN to_string(self.val) \o <<PERCENT>>
    ELSE <<ZERO, PERCENT>>

\* split_whitespace().collect::<String>()
split_whitespace_collect(s) == SelectSeq(s, LAMBDA c : ~IsSpace(c))

\* The message of the panic of the slice in TryFrom<String>.
SlicePanic(other, checks) ==
    IF Len(other) > 0 THEN "byte index is not a char boundary"
    ELSE IF checks THEN "attempt to subtract with overflow"
    ELSE "byte index out of bounds"

\* get_sink_volume after capture(): the level the captured text stands for.
nommo_volume(stdout) ==
    LET volume == split_whitespace_collect(stdout)
        parsed == NommoVol_try_from(volume)
    IN  [panic |-> parsed.panic,
         vol |-> IF parsed.panic THEN NoVol
                 ELSE IF parsed.ok THEN parsed.vol ELSE Muted]

(***************************************************************************)
(* The sink, as pactl shows and changes it.                                *)
(***************************************************************************)
\* The second "/"-separated field of a sink's Volume line, as cut prints
\* it: the percentage right-aligned in 3 columns between two spaces, and
\* the end of the line: "  65% \n".
pactl_volume_field(pct) ==
    LET digits == to_string(pct)
        pad == [i \in 1..(IF Len(digits) < 3 THEN 3 - Len(digits) ELSE 0)
                    |-> SPACE]
    IN  <<SPACE>> \o pad \o digits \o <<PERCENT, SPACE, NEWLINE>>

RECURSIVE digits_value(_, _, _)
\* The number a digit string denotes.
digits_value(s, i, acc) ==
    IF i > Len(s) THEN acc
    ELSE digits_value(s, i + 1, acc * 10 + DigitValue(s[i]))

\* pactl set-sink-volume <sink> <text>: the percentage the sink then holds.
pactl_set_sink_volume(text) == digits_value(SubSeq(text, 1, Len(text) - 1), 1, 0)

\* The exit status of a call whose shell has not exited, or did not start.
NoExit == -1

\* One pactl call of the iteration: op, its argument (mute for
\* set_sink_mute, vol for set_sink_volume), its status (the Result of
\* join/capture), the exit status of its shell, which the program does not
\* look at, and for get_sink_volume the level it returned in vol.
Call(op, mute, v, status, exit) ==
    [op |-> op, mute |-> mute, vol |-> v, status |-> status, exit |-> exit]

Last(s) == s[Len(s)]

\* calls with the status, the exit status and the level of its last call set.
Finish(cs, status, v, exit) ==
    [cs EXCEPT ![Len(cs)] =
        Call(cs[Len(cs)].op, cs[Len(cs)].mute, v, status, exit)]

\* The message of the panic of println! when stdout is closed.
StdoutPanic == "failed printing to stdout"

\* The panic message of a failed set_sink_volume, by the arm it is in.
SetPanic(m) ==
    IF m.tag = "VolUp" THEN "Cannot increase volume"
    ELSE "Cannot decrease volume"

Init ==
    /\ pc = "read"
    /\ buff = [i \in 1..BUFF_LEN |-> 0]
    /\ msg = NoMsg
    /\ current_vol = NoVol
    /\ vol = NoVol
    /\ calls = <<>>
    /\ panic = "none"
    /\ overflow_checks \in BOOLEAN
    /\ sinkVol \in ExternalVols
    /\ sinkMute \in BOOLEAN

(***************************************************************************)
(* handle_device, one action per step of the loop body.                    *)
(***************************************************************************)
\* dev_handle.read(&mut buff) returns a report: a new iteration begins.
ReadOk ==
    /\ pc = "read"
    /\ \E r \in Reports : buff' = r
    /\ pc' = "decode"
    /\ msg' = NoMsg
    /\ current_vol' = NoVol
    /\ vol' = NoVol
    /\ calls' = <<>>
    /\ UNCHANGED <<panic, overflow_checks, sinkVol, sinkMute>>

\* Mutant of ReadErr: the failed read is reported and the read is retried.
ReadErrRetried ==
    /\ pc = "read"
    /\ pc' = "read"
    /\ panic' = "Cannot read from device"
    /\ UNCHANGED <<buff, msg, current_vol, vol, calls, overflow_checks,
                   sinkVol, sinkMute>>

\* dev_handle.read(&mut buff) fails: expect panics.
ReadErr ==
    /\ pc = "read"
    /\ pc' = "terminated"
    /\ panic' = "Cannot read from device"
    /\ UNCHANGED <<buff, msg, current_vol, vol, calls, overflow_checks,
                   sinkVol, sinkMute>>

\* NommoMsg::try_from(&buff).expect("Cannot convert data")
Decode ==
    /\ pc = "decode"
    /\ LET r == NommoMsg_try_from(buff) IN
        IF r.ok
        THEN /\ msg' = r.msg
             /\ pc' = "get_sink_volume"
             /\ UNCHANGED panic
        ELSE /\ pc' = "terminated"
             /\ panic' = "Cannot convert data"
             /\ UNCHANGED msg
    /\ UNCHANGED <<buff, current_vol, vol, calls, overflow_checks,
                   sinkVol, sinkMute>>

\* get_sink_volume starts its pactl pipeline.
GetSinkVolumeSpawn ==
    /\ pc = "get_sink_volume"
    /\ calls' = Append(calls,
                       Call("get_sink_volume", FALSE, NoVol, "pending", NoExit))
    /\ pc' = "get_sink_volume_capture"
    /\ UNCHANGED <<buff, msg, current_vol, vol, panic, overflow_checks,
                   sinkVol, sinkMute>>

\* capture() returned stdout as the pipeline's output: the text parses to a
\* level or to Muted (unwrap_or), or try_from panics in its slice.
GetSinkVolumeCaptured(stdout) ==
    /\ LET r == nommo_volume(stdout) IN
        IF r.panic
        THEN /\ calls' = Finish(calls, "ok", NoVol, 0)
             /\ pc' = "terminated"
             /\ panic' = SlicePanic(split_whitespace_collect(stdout),
                                    overflow_checks)
             /\ UNCHANGED current_vol
        ELSE /\ current_vol' = r.vol
             /\ calls' = Finish(calls, "ok", r.vol, 0)
             /\ pc' = "dispatch"
             /\ UNCHANGED panic
    /\ UNCHANGED <<buff, msg, vol, overflow_checks, sinkVol, sinkMute>>

\* The pipeline prints the field of the sink's own Volume line.
GetSinkVolumeOk ==
    /\ pc = "get_sink_volume_capture"
    /\ GetSinkVolumeCaptured(pactl_volume_field(sinkVol))

\* The pipeline prints the field of another sink: grep "Name: <sink>" is
\* not anchored, and grep -m 1 Volume takes the first Volume line, so a
\* sink listed earlier whose name contains <sink> is the one read.
GetSinkVolumeOtherSink ==
    /\ pc = "get_sink_volume_capture"
    /\ \E p \in OtherSinkVols : GetSinkVolumeCaptured(pactl_volume_field(p))

\* The pipeline prints nothing (the sink is not listed).
GetSinkVolumeEmpty ==
    /\ pc = "get_sink_volume_capture"
    /\ GetSinkVolumeCaptured(<<>>)

\* capture() fails: expect panics.
GetSinkVolumeErr ==
    /\ pc = "get_sink_volume_capture"
    /\ calls' = Finish(calls, "err", NoVol, NoExit)
    /\ pc' = "terminated"
    /\ panic' = "Cannot get volume"
    /\ UNCHANGED <<buff, msg, current_vol, vol, overflow_checks,
                   sinkVol, sinkMute>>

\* The level handle_device passes to set_sink_volume for a volume message.
NextVol(m, cur, checks) ==
    IF m.tag = "VolUp" THEN inc(cur, VOL_STEP, checks) ELSE dec(cur, VOL_STEP)

\* match msg { VolUp => ..., VolDown => ..., _ => {} }
Dispatch ==
    /\ pc = "dispatch"
    /\ IF msg.tag \in {"VolUp", "VolDown"}
       THEN LET new == NextVol(msg, current_vol, overflow_checks) IN
            IF new = AddOverflow
            THEN /\ pc' = "terminated"
                 /\ panic' = "attempt to add with overflow"
                 /\ UNCHANGED vol
            ELSE /\ vol' = new
                 /\ pc' = "set_sink_mute"
                 /\ UNCHANGED panic
       ELSE /\ pc' = "read"
            /\ UNCHANGED <<vol, panic>>
    /\ UNCHANGED <<buff, msg, current_vol, calls, overflow_checks,
                   sinkVol, sinkMute>>

\* Mutant of SetSinkMuteSpawn: the flag passed is inverted.
SetSinkMuteSpawnInverted ==
    /\ pc = "set_sink_mute"
    /\ calls' = Append(calls,
           Call("set_sink_mute", vol # Muted, NoVol, "pending", NoExit))
    /\ pc' = "set_sink_mute_join"
    /\ UNCHANGED <<buff, msg, current_vol, vol, panic, overflow_checks,
                   sinkVol, sinkMute>>

\* set_sink_volume first calls set_sink_mute(sink_name, vol == Muted).
SetSinkMuteSpawn ==
    /\ pc = "set_sink_mute"
    /\ calls' = Append(calls,
           Call("set_sink_mute", vol = Muted, NoVol, "pending", NoExit))
    /\ pc' = "set_sink_mute_join"
    /\ UNCHANGED <<buff, msg, current_vol, vol, panic, overflow_checks,
                   sinkVol, sinkMute>>

\* pactl set-sink-mute exited 0: join() returns Ok, the sink has the flag,
\* and the message of a mute is printed.
SetSinkMuteOk ==
    /\ pc = "set_sink_mute_join"
    /\ sinkMute' = Last(calls).mute
    /\ calls' = Finish(calls, "ok", NoVol, 0)
    /\ pc' = "set_sink_volume"
    /\ UNCHANGED <<buff, msg, current_vol, vol, panic, overflow_checks, sinkVol>>

\* pactl set-sink-mute exited 1 (no server, unknown sink): join() returns
\* Ok all the same, the exit status is dropped by map(|_| ()), the sink
\* keeps its flag and set_sink_volume goes on.
SetSinkMuteExitFailed ==
    /\ pc = "set_sink_mute_join"
    /\ calls' = Finish(calls, "ok", NoVol, 1)
    /\ pc' = "set_sink_volume"
    /\ UNCHANGED <<buff, msg, current_vol, vol, panic, overflow_checks,
                   sinkVol, sinkMute>>

\* join() returned Ok for set_sink_mute(true) and println! panics, stdout
\* being closed: the volume is not written.
SetSinkMutePrintPanic ==
    /\ pc = "set_sink_mute_join"
    /\ Last(calls).mute
    /\ \E exit \in {0, 1} :
          /\ sinkMute' = (IF exit = 0 THEN TRUE ELSE sinkMute)
          /\ calls' = Finish(calls, "ok", NoVol, exit)
    /\ pc' = "terminated"
    /\ panic' = StdoutPanic
    /\ UNCHANGED <<buff, msg, current_vol, vol, overflow_checks, sinkVol>>

\* join() fails (the shell could not be started or waited for): ? returns
\* the error and expect panics.
SetSinkMuteErr ==
    /\ pc = "set_sink_mute_join"
    /\ calls' = Finish(calls, "err", NoVol, NoExit)
    /\ pc' = "terminated"
    /\ panic' = SetPanic(msg)
    /\ UNCHANGED <<buff, msg, current_vol, vol, overflow_checks,
                   sinkVol, sinkMute>>

\* Mutant of SetSinkVolumeSpawn: the command is started and not joined.
SetSinkVolumeSpawnDetached ==
    /\ pc = "set_sink_volume"
    /\ calls' = Append(calls,
           Call("set_sink_volume", FALSE, vol, "pending", NoExit))
    /\ pc' = "read"
    /\ UNCHANGED <<buff, msg, current_vol, vol, panic, overflow_checks,
                   sinkVol, sinkMute>>

\* pactl set-sink-volume <sink> <vol> is started.
SetSinkVolumeSpawn ==
    /\ pc = "set_sink_volume"
    /\ calls' = Append(calls,
           Call("set_sink_volume", FALSE, vol, "pending", NoExit))
    /\ pc' = "set_sink_volume_join"
    /\ UNCHANGED <<buff, msg, current_vol, vol, panic, overflow_checks,
                   sinkVol, sinkMute>>

\* pactl set-sink-volume exited 0: join() returns Ok, the sink has the
\* volume, the message is printed and the loop starts over.
SetSinkVolumeOk ==
    /\ pc = "set_sink_volume_join"
    /\ sinkVol' = pactl_set_sink_volume(fmt(Last(calls).vol))
    /\ calls' = Finish(calls, "ok", Last(calls).vol, 0)
    /\ pc' = "read"
    /\ UNCHANGED <<buff, msg, current_vol, vol, panic, overflow_checks, sinkMute>>

\* pactl set-sink-volume exited 1: join() returns Ok all the same, the
\* sink keeps its volume, the message is printed and the loop starts over.
SetSinkVolumeExitFailed ==
    /\ pc = "set_sink_volume_join"
    /\ calls' = Finish(calls, "ok", Last(calls).vol, 1)
    /\ pc' = "read"
    /\ UNCHANGED <<buff, msg, current_vol, vol, panic, overflow_checks,
                   sinkVol, sinkMute>>

\* join() returned Ok and println! panics, stdout being closed.
SetSinkVolumePrintPanic ==
    /\ pc = "set_sink_volume_join"
    /\ \E exit \in {0, 1} :
          /\ sinkVol' = (IF exit = 0
                         THEN pactl_set_sink_volume(fmt(Last(calls).vol))
                         ELSE sinkVol)
          /\ calls' = Finish(calls, "ok", Last(calls).vol, exit)
    /\ pc' = "terminated"
    /\ panic' = StdoutPanic
    /\ UNCHANGED <<buff, msg, current_vol, vol, overflow_checks, sinkMute>>

\* join() fails: expect panics.
SetSinkVolumeErr ==
    /\ pc = "set_sink_volume_join"
    /\ calls' = Finish(calls, "err", Last(calls).vol, NoExit)
    /\ pc' = "terminated"
    /\ panic' = SetPanic(msg)
    /\ UNCHANGED <<buff, msg, current_vol, vol, overflow_checks,
                   sinkVol, sinkMute>>

(***************************************************************************)
(* Other programs.                                                         *)
(***************************************************************************)
\* Another program sets the sink's volume.
ExternalVolume ==
    /\ \E v \in ExternalVols : v # sinkVol /\ sinkVol' = v
    /\ UNCHANGED <<pc, buff, msg, current_vol, vol, calls, panic,
                   overflow_checks, sinkMute>>

\* Another program toggles the sink's mute flag.
ExternalMute ==
    /\ sinkMute' = ~sinkMute
    /\ UNCHANGED <<pc, buff, msg, current_vol, vol, calls, panic,
                   overflow_checks, sinkVol>>

Next ==
    \/ ReadOk
    \/ ReadErr
    \/ Decode
    \/ GetSinkVolumeSpawn
    \/ GetSinkVolumeOk
    \/ GetSinkVolumeOtherSink
    \/ GetSinkVolumeEmpty
    \/ GetSinkVolumeErr
    \/ Dispatch
    \/ SetSinkMuteSpawn
    \/ SetSinkMuteOk
    \/ SetSinkMuteExitFailed
    \/ SetSinkMutePrintPanic
    \/ SetSinkMuteErr
    \/ SetSinkVolumeSpawn
    \/ SetSinkVolumeOk
    \/ SetSinkVolumeExitFailed
    \/ SetSinkVolumePrintPanic
    \/ SetSinkVolumeErr
    \/ ExternalVolume
    \/ ExternalMute

Spec == Init /\ [][Next]_vars

(***************************************************************************)
(* The program alone with the sink, started at every percentage the sink   *)
(* can show: every level get_sink_volume can return is passed to inc, dec  *)
(* and fmt, and no other program changes the sink.                         *)
(***************************************************************************)
InitAllLevels ==
    /\ pc = "read"
    /\ buff = [i \in 1..BUFF_LEN |-> 0]
    /\ msg = NoMsg
    /\ current_vol = NoVol
    /\ vol = NoVol
    /\ calls = <<>>
    /\ panic = "none"
    /\ overflow_checks \in BOOLEAN
    /\ sinkVol \in 0..MaxSinkPct
    /\ sinkMute \in BOOLEAN

NextProgram ==
    \/ ReadOk
    \/ ReadErr
    \/ Decode
    \/ GetSinkVolumeSpawn
    \/ GetSinkVolumeOk
    \/ GetSinkVolumeOtherSink
    \/ GetSinkVolumeEmpty
    \/ GetSinkVolumeErr
    \/ Dispatch
    \/ SetSinkMuteSpawn
    \/ SetSinkMuteOk
    \/ SetSinkMuteExitFailed
    \/ SetSinkMutePrintPanic
    \/ SetSinkMuteErr
    \/ SetSinkVolumeSpawn
    \/ SetSinkVolumeOk
    \/ SetSinkVolumeExitFailed
    \/ SetSinkVolumePrintPanic
    \/ SetSinkVolumeErr

SpecAllLevels == InitAllLevels /\ [][NextProgram]_vars

(***************************************************************************)
(* Vocabulary of the claims.                                               *)
(***************************************************************************)
ReadPanic == "Cannot read from device"

GatewayOps == <<"get_sink_volume", "set_sink_mute", "set_sink_volume">>

\* set_sink_volume returned Ok in this iteration: the dispatch succeeded.
DispatchSucceeded ==
    /\ calls # <<>>
    /\ Last(calls).op = "set_sink_volume"
    /\ Last(calls).status = "ok"
    /\ panic # StdoutPanic

\* set_sink_mute(mute) was called and returned Ok in this iteration.
MuteWritten(mute) ==
    \E i \in 1..Len(calls) :
        /\ calls[i].op = "set_sink_mute"
        /\ calls[i].mute = mute
        /\ calls[i].status = "ok"

\* The level a sink at pct percent reads as, stated on numbers.
SinkLevel(pct) == IF pct = 0 \/ pct > 255 THEN Muted ELSE Value(pct)

\* The report starts with one of the three command prefixes.
HasCommandPrefix(b) ==
    \/ b[1] = 1 /\ b[2] = 233
    \/ b[1] = 1 /\ b[2] = 234
    \/ b[1] = 5 /\ b[2] = 15

(***************************************************************************)
(* C1: every concrete level the loop holds (the level read from the sink   *)
(* and the level computed from it by inc or dec) is in 1..100.             *)
(* Violated: the sink's percentage is parsed as any u8, so a sink at 150%  *)
(* reads as Value(150), and dec makes Value(145) of it.                    *)
(***************************************************************************)
C1_ConcreteLevelInRange ==
    \A l \in {current_vol, vol} : l.tag = "Value" => l.val \in 1..100

(***************************************************************************)
(* C2: the decoder returns a command for every report, and Noop for every  *)
(* report that has none of the three command prefixes.                     *)
(* Violated: only the prefix [1,0] decodes to Noop; any other unmatched    *)
(* report is an Err, on which handle_device panics.                        *)
(***************************************************************************)
C2_DecoderTotal ==
    pc = "decode" =>
        LET r == NommoMsg_try_from(buff) IN
        /\ r.ok
        /\ ~HasCommandPrefix(buff) => r.msg = Noop

(***************************************************************************)
(* C3: after a failed gateway call the loop is back at awaiting the next   *)
(* report.                                                                 *)
(* Violated: every gateway result goes through expect, so the failure      *)
(* ends the loop.                                                          *)
(***************************************************************************)
C3_GatewayFailureContinues ==
    (calls # <<>> /\ Last(calls).status = "err") => pc = "read"

(***************************************************************************)
(* C4: the loop is terminated only by a failed device read.                *)
(* Violated: an undecodable report, a failed gateway call, an empty pactl  *)
(* output, a u8 overflow in inc and a println! to a closed stdout end it   *)
(* too.                                                                    *)
(***************************************************************************)
C4_OnlyReadFailureTerminates ==
    pc = "terminated" => panic = ReadPanic

(***************************************************************************)
(* C5: an iteration whose report decodes to EqValue or Noop makes no       *)
(* gateway call.                                                           *)
(* Violated: get_sink_volume is called before the match on msg, for every  *)
(* decoded report.                                                         *)
(***************************************************************************)
C5_NoGatewayCallOnEqOrNoop ==
    msg.tag \in {"EqValue", "Noop"} => calls = <<>>

(***************************************************************************)
(* C6: after a successful VolUp or VolDown dispatch, set_sink_mute(true)   *)
(* has returned Ok if the new level is Muted, and set_sink_mute(false) has *)
(* returned Ok if the level went from Muted to a concrete value; the       *)
(* volume written is the new level.  The flag passed is vol == Muted, and  *)
(* a mute write whose pactl exits 0 sets the sink's flag to it; one whose  *)
(* pactl exits 1 leaves the sink's flag as it was.                         *)
(***************************************************************************)
C6_MuteStateInv ==
    DispatchSucceeded =>
        /\ Last(calls).vol = vol
        /\ vol = Muted => MuteWritten(TRUE)
        /\ (current_vol = Muted /\ vol.tag = "Value") => MuteWritten(FALSE)

C6_MuteFollowsLevel ==
    /\ []C6_MuteStateInv
    /\ [][(pc = "set_sink_mute_join" /\ calls' # calls
             /\ Last(calls').status = "ok")
            => /\ Last(calls').mute = (vol = Muted)
               /\ Last(calls').exit = 0 => sinkMute' = (vol = Muted)
               /\ Last(calls').exit = 1 => sinkMute' = sinkMute]_vars

\* Value(3) and VolDown: Muted was written with set_sink_mute(true).
C6_Witness ==
    /\ DispatchSucceeded
    /\ msg = VolDown
    /\ current_vol = Value(3)
    /\ vol = Muted
    /\ MuteWritten(TRUE)
    /\ calls[2].exit = 0
    /\ sinkMute

(***************************************************************************)
(* C7: when a successful dispatch takes a concrete level to a concrete     *)
(* level, the volume write of the new level is made and no mute call.      *)
(* Violated: set_sink_volume calls set_sink_mute(sink_name, vol == Muted)  *)
(* before every volume write, so Value(97) and VolUp makes the call        *)
(* set_sink_mute(false) and then writes Value(100).                        *)
(***************************************************************************)
C7_NoMuteCall ==
    (DispatchSucceeded /\ current_vol.tag = "Value" /\ vol.tag = "Value") =>
        /\ Last(calls).vol = vol
        /\ \A i \in 1..Len(calls) : calls[i].op # "set_sink_mute"

(***************************************************************************)
(* C8: the level of every volume write is inc (VolUp) or dec (VolDown)     *)
(* with step 5 of the level the volume read of the same iteration          *)
(* returned, and that level is the sink's percentage at the time of the    *)
(* read, whatever program set it.                                          *)
(* Violated in its second part: the pipeline of get_sink_volume selects    *)
(* the Volume line with an unanchored grep, so with a sink my.sink.2       *)
(* listed before my.sink the level read is the other sink's, and the       *)
(* press is computed from it.  The first part (C8_WriteFromReadInv) holds. *)
(***************************************************************************)
C8_WriteFromReadInv ==
    \A i \in 1..Len(calls) :
        calls[i].op = "set_sink_volume" =>
            /\ calls[1].op = "get_sink_volume"
            /\ calls[1].status = "ok"
            /\ msg.tag \in {"VolUp", "VolDown"}
            /\ msg.tag = "VolUp" =>
                   calls[i].vol = inc(calls[1].vol, 5, overflow_checks)
            /\ msg.tag = "VolDown" => calls[i].vol = dec(calls[1].vol, 5)

C8_WriteFromFreshRead ==
    /\ []C8_WriteFromReadInv
    /\ [][(pc = "get_sink_volume_capture" /\ pc' = "dispatch")
            => /\ current_vol' = SinkLevel(sinkVol)
               /\ Last(calls').vol = SinkLevel(sinkVol)]_vars

(***************************************************************************)
(* C9: the gateway calls of an iteration are made one after the other, in  *)
(* the order read, mute write, volume write; a call is pending only while  *)
(* the loop waits for it, and none is pending when the next report is      *)
(* awaited or decoded.                                                     *)
(***************************************************************************)
C9_CallsInOrderAndComplete ==
    /\ Len(calls) <= Len(GatewayOps)
    /\ \A i \in 1..Len(calls) :
          /\ calls[i].op = GatewayOps[i]
          /\ i < Len(calls) => calls[i].status = "ok"
          /\ calls[i].status = "pending" =>
                pc \in {"get_sink_volume_capture", "set_sink_mute_join",
                        "set_sink_volume_join"}
    /\ pc \in {"read", "decode"} =>
          \A i \in 1..Len(calls) : calls[i].status # "pending"

\* All three calls of a press have completed and the next report is awaited.
C9_Witness ==
    /\ pc = "read"
    /\ Len(calls) = 3
    /\ \A i \in 1..3 : calls[i].status = "ok"

(***************************************************************************)
(* C10: a failed device read terminates the loop at once, and a            *)
(* terminated loop decodes no report and makes no gateway call.            *)
(***************************************************************************)
C10_ReadFailureIsFatal ==
    /\ [](panic = ReadPanic => pc = "terminated")
    /\ [][pc = "terminated" =>
            /\ pc' = "terminated"
            /\ UNCHANGED <<buff, msg, current_vol, vol, calls, panic>>]_vars

\* The read failed after a press had been handled.
C10_Witness ==
    /\ pc = "terminated"
    /\ panic = ReadPanic
    /\ DispatchSucceeded

(***************************************************************************)
(* C11: inc with step 5 of a concrete level Value(v), v in 1..100, is      *)
(* Value(v + 5) for v <= 95 and Value(100) for v >= 96, in both builds:    *)
(* for the level of every VolUp iteration and for every v in 1..100.       *)
(***************************************************************************)
C11_IncClampsAt100 ==
    /\ (msg = VolUp /\ vol # NoVol /\ current_vol.tag = "Value"
          /\ current_vol.val \in 1..100) =>
            /\ current_vol.val <= 95 => vol = Value(current_vol.val + 5)
            /\ current_vol.val >= 96 => vol = Value(100)
            /\ vol.val <= 100
    \* every v of the range, evaluated where the loop first awaits a report
    /\ (pc = "read" /\ calls = <<>>) =>
          \A v \in 1..100 :
              inc(Value(v), 5, overflow_checks)
                  = Value(IF v + 5 < 100 THEN v + 5 ELSE 100)

\* Value(97) and VolUp: the sum 102 is clamped.
C11_Witness ==
    /\ msg = VolUp
    /\ current_vol = Value(97)
    /\ vol = Value(100)
    /\ pc = "set_sink_mute"

(***************************************************************************)
(* C12: dec with step 5 of a concrete level Value(v) is Muted for v <= 5   *)
(* and Value(v - 5) for v > 5, and never a concrete level below 1: for     *)
(* the level of every VolDown iteration and for every u8 v >= 1.           *)
(***************************************************************************)
C12_DecFloorsToMuted ==
    /\ (msg = VolDown /\ vol # NoVol /\ current_vol.tag = "Value") =>
            /\ current_vol.val <= 5 => vol = Muted
            /\ current_vol.val > 5 => vol = Value(current_vol.val - 5)
            /\ vol.tag = "Value" => vol.val >= 1
    \* every u8 v, evaluated where the loop first awaits a report
    /\ (pc = "read" /\ calls = <<>>) =>
          \A v \in 1..U8_MAX :
              dec(Value(v), 5) = IF v <= 5 THEN Muted ELSE Value(v - 5)

\* Value(5) and VolDown: the level at the step collapses to Muted.
C12_Witness ==
    /\ msg = VolDown
    /\ current_vol = Value(5)
    /\ vol = Muted
    /\ pc = "set_sink_mute"

(***************************************************************************)
(* C13: inc of Muted with step s is Value(s): Value(5) in every VolUp      *)
(* iteration that read Muted, whatever the sink held before, and Value(s)  *)
(* for every u8 step s >= 1.                                               *)
(***************************************************************************)
C13_IncFromMutedIsStep ==
    /\ (msg = VolUp /\ vol # NoVol /\ current_vol = Muted) => vol = Value(5)
    \* every u8 step, evaluated where the loop first awaits a report
    /\ (pc = "read" /\ calls = <<>>) =>
          \A s \in 1..U8_MAX : inc(Muted, s, overflow_checks) = Value(s)

\* Muted and VolUp: Value(5) was written.
C13_Witness ==
    /\ DispatchSucceeded
    /\ msg = VolUp
    /\ current_vol = Muted
    /\ vol = Value(5)

(***************************************************************************)
(* C14: Value(100) is a fixed point of inc and Muted a fixed point of dec: *)
(* n applications, n in 1..MaxApply, return the same level each time, and  *)
(* a press at the ceiling (the floor) whose pactl write exits 0 leaves the *)
(* sink at 100% (0%).                                                      *)
(***************************************************************************)
MaxApply == 4

RECURSIVE inc_times(_, _, _)
\* inc with VOL_STEP, applied n times.
inc_times(level, n, checks) ==
    IF n = 0 THEN level
    ELSE inc(inc_times(level, n - 1, checks), VOL_STEP, checks)

RECURSIVE dec_times(_, _)
\* dec with VOL_STEP, applied n times.
dec_times(level, n) ==
    IF n = 0 THEN level ELSE dec(dec_times(level, n - 1), VOL_STEP)

C14_CeilingAndFloorAreFixed ==
    /\ (msg = VolUp /\ vol # NoVol /\ current_vol = Value(100)) =>
            /\ vol = Value(100)
            /\ \A n \in 1..MaxApply :
                  inc_times(current_vol, n, overflow_checks) = Value(100)
            /\ (DispatchSucceeded /\ Last(calls).exit = 0) => sinkVol = 100
    /\ (msg = VolDown /\ vol # NoVol /\ current_vol = Muted) =>
            /\ vol = Muted
            /\ \A n \in 1..MaxApply : dec_times(current_vol, n) = Muted
            /\ (DispatchSucceeded /\ Last(calls).exit = 0) => sinkVol = 0

\* A VolUp at the ceiling was written and the sink is still at 100%.
C14_Witness ==
    /\ DispatchSucceeded
    /\ msg = VolUp
    /\ current_vol = Value(100)
    /\ vol = Value(100)
    /\ Last(calls).exit = 0
    /\ sinkVol = 100

(***************************************************************************)
(* C15: a report that starts with [1,233] decodes to VolUp, with [1,234]   *)
(* to VolDown, and with [5,15] to EqValue of its 4th byte; setting any     *)
(* other byte of such a report to any value leaves the result unchanged.   *)
(***************************************************************************)
C15_DecoderByPrefix ==
    /\ msg # NoMsg =>
          /\ (buff[1] = 1 /\ buff[2] = 233) => msg = VolUp
          /\ (buff[1] = 1 /\ buff[2] = 234) => msg = VolDown
          /\ (buff[1] = 5 /\ buff[2] = 15) => msg = EqValue(buff[4])
    /\ (pc = "get_sink_volume" /\ HasCommandPrefix(buff)) =>
          \A i \in 3..BUFF_LEN : \A b \in 0..U8_MAX :
              (i = 4 /\ buff[1] = 5) \/
              NommoMsg_try_from([buff EXCEPT ![i] = b]) = [ok |-> TRUE, msg |-> msg]

\* An equalizer report whose 3rd and 4th bytes differ was decoded.
C15_Witness ==
    /\ pc = "get_sink_volume"
    /\ buff[1] = 5 /\ buff[2] = 15
    /\ buff[3] # buff[4]
    /\ msg = EqValue(42)

(***************************************************************************)
(* C16: for every level the sink read returns, inc with step 5 adds        *)
(* without u8 overflow: it does not panic, and for Value(v) it returns     *)
(* Value(v + 5) clamped at 100.                                            *)
(* Violated: the sink can show 251..255%, v + 5 then exceeds 255 before    *)
(* the comparison with 100: a panic under overflow checks, and without     *)
(* them the wrapped sum, Value(0) for 251.                                 *)
(***************************************************************************)
C16_IncAddsWithoutOverflow ==
    /\ panic # "attempt to add with overflow"
    /\ (msg = VolUp /\ vol # NoVol /\ current_vol.tag = "Value") =>
          vol = Value(IF current_vol.val + 5 > 100 THEN 100
                      ELSE current_vol.val + 5)

(***************************************************************************)
(* C17: for every level L that is Muted or Value(1..100), the text         *)
(* set_sink_volume writes for L parses back to L; the sink written with L  *)
(* reads as L, the sink changes only by that write, and the read returns   *)
(* the level the sink shows: so the next read yields the level written.    *)
(* Violated in its consequence: the read can return another sink's level   *)
(* (unanchored grep in get_sink_volume), and set_sink_volume returns Ok    *)
(* when pactl exited 1 and the sink kept its volume.  The round trip of    *)
(* the text (C17_RoundTripInv) holds.                                      *)
(***************************************************************************)
InDomain(level) ==
    level = Muted \/ (level.tag = "Value" /\ level.val \in 1..100)

RoundTrips(level) ==
    LET r == NommoVol_try_from(fmt(level)) IN
    ~r.panic /\ r.ok /\ r.vol = level

C17_RoundTripInv ==
    /\ (pc \in {"set_sink_volume", "set_sink_volume_join"} /\ InDomain(vol))
          => RoundTrips(vol)
    \* every level of the domain, evaluated where the loop first awaits a report
    /\ (pc = "read" /\ calls = <<>>) =>
          (RoundTrips(Muted) /\ \A v \in 1..100 : RoundTrips(Value(v)))

C17_WriteThenReadConsistent ==
    /\ []C17_RoundTripInv
    /\ [][(pc = "set_sink_volume_join" /\ pc' = "read" /\ InDomain(vol))
            => SinkLevel(sinkVol') = vol]_vars
    /\ [][sinkVol' # sinkVol => (pc = "set_sink_volume_join" /\ pc' = "read")]_vars
    /\ [][(pc = "get_sink_volume_capture" /\ pc' = "dispatch")
            => current_vol' = SinkLevel(sinkVol)]_vars

(***************************************************************************)
(* C18: in one set_sink_volume call the mute flag is written at most once  *)
(* and the volume at most once, the volume write is started only after     *)
(* the mute write succeeded (join() returned Ok and pactl exited 0), and   *)
(* a set_sink_mute that ends the loop leaves the sink's volume as it was.  *)
(* Violated: set_sink_mute drops the exit status of pactl, so after a      *)
(* mute write that failed with exit 1 the volume write is started all the  *)
(* same.  The rest holds: a join() that returns Err starts no volume       *)
(* write (C18_MuteBeforeVolumeInv).                                        *)
(***************************************************************************)
CallsOf(op) == {i \in 1..Len(calls) : calls[i].op = op}

C18_MuteBeforeVolumeInv ==
    /\ Cardinality(CallsOf("set_sink_mute")) <= 1
    /\ Cardinality(CallsOf("set_sink_volume")) <= 1
    /\ \A j \in CallsOf("set_sink_volume") :
          \E i \in CallsOf("set_sink_mute") :
              i < j /\ calls[i].status = "ok"
    /\ (\E i \in CallsOf("set_sink_mute") : calls[i].status = "err")
          => CallsOf("set_sink_volume") = {}

C18_MuteWrittenBeforeVolume ==
    /\ [](C18_MuteBeforeVolumeInv
            /\ \A j \in CallsOf("set_sink_volume") :
                  \A i \in CallsOf("set_sink_mute") : calls[i].exit = 0)
    /\ [][(pc = "set_sink_mute_join" /\ pc' = "terminated")
            => sinkVol' = sinkVol]_vars

(***************************************************************************)
(* C19: a volume read whose pactl output was captured returns a level,     *)
(* and Muted when the text is no u8 percentage; a VolDown of that          *)
(* iteration then calls set_sink_mute(true) and writes 0%, a VolUp calls   *)
(* set_sink_mute(false) and writes 5%.                                     *)
(* Violated: TryFrom<String> panics in the slice before it parses, on an   *)
(* empty text (the sink is not listed, or the output is only white space)  *)
(* and on a text that ends in a character of more than one byte, so the    *)
(* read returns nothing.  The rest holds (C19_UnparsedTextIsMuted): a      *)
(* text such as "300%" reads as Muted.                                     *)
(***************************************************************************)
\* Texts that are no u8 percentage: "300%", "256%", "abc%", "%", "+%",
\* "-5%", "6.5%", "65" followed by U+00E9, U+00E9 alone, white space
\* only, and the empty text.
UnparsedTexts ==
    { to_string(MaxSinkPct) \o <<PERCENT>>,
      to_string(U8_MAX + 1) \o <<PERCENT>>,
      <<97, 98, 99, PERCENT>>,
      <<PERCENT>>,
      <<PLUS, PERCENT>>,
      <<45, ZERO + 5, PERCENT>>,
      <<ZERO + 6, 46, ZERO + 5, PERCENT>>,
      to_string(65) \o <<233>>,
      <<233>>,
      <<SPACE, 13, 160, 8195, NEWLINE>>,
      <<>> }

C19_UnparsedTextIsMuted ==
    /\ (pc = "read" /\ calls = <<>>) =>
          /\ \A t \in UnparsedTexts :
                ~nommo_volume(t).panic => nommo_volume(t).vol = Muted
          /\ \A pct \in (U8_MAX + 1)..MaxSinkPct :
                nommo_volume(pactl_volume_field(pct))
                    = [panic |-> FALSE, vol |-> Muted]
    /\ (DispatchSucceeded /\ calls[1].vol = Muted /\ msg = VolDown) =>
          /\ MuteWritten(TRUE)
          /\ fmt(Last(calls).vol) = <<ZERO, PERCENT>>
          /\ Last(calls).exit = 0 => sinkVol = 0
    /\ (DispatchSucceeded /\ calls[1].vol = Muted /\ msg = VolUp) =>
          /\ MuteWritten(FALSE)
          /\ fmt(Last(calls).vol) = <<ZERO + 5, PERCENT>>
          /\ Last(calls).exit = 0 => sinkVol = 5

C19_UnparsedTextNeverPanics ==
    /\ C19_UnparsedTextIsMuted
    /\ (pc = "read" /\ calls = <<>>) =>
          \A t \in UnparsedTexts : ~nommo_volume(t).panic
    /\ (calls # <<>> /\ calls[1].status = "ok") =>
          /\ calls[1].vol.tag \in {"Muted", "Value"}
          /\ panic \notin {SlicePanic(<<>>, TRUE), SlicePanic(<<>>, FALSE)}

====
